---- MODULE Spec2Model ----
(***************************************************************************)
(* Sentiment client: the stats aggregator, the history stores, the REST    *)
(* clients and the live-typing components, as state machines.              *)
(*                                                                         *)
(* The repository holds several implementations of the same component      *)
(* (src/lib, src/frontend/lib, src/hooks, src/components).  Each           *)
(* specification starts by choosing which implementation is mounted        *)
(* (statsImpl, histImpl, apiImpl, liveImpl) and then runs only that one.   *)
(***************************************************************************)
EXTENDS Integers, Sequences, FiniteSets, TLC

VARIABLES
    statsImpl,      \* which updateStats is mounted: "lib" | "fe"
    stats,          \* src/lib/store.ts stats {totalPredictions, averageResponseTime, responseTimes}
    feStats,        \* src/frontend/lib/store.ts stats {responseTime, count}
    latLog,         \* every responseTime handed to updateStats so far, in call order
    histImpl,       \* which history store is mounted: "lib" | "fe" | "hook" | "hook2" | "ah" | "ah2" | "util"
    now,            \* Date.now() as last read by a record operation
    history,        \* the in-memory history (store state or React state)
    view,           \* "ah": the history captured by the closures of the last render
    blob,           \* localStorage value under the history key, NoItem when the key is absent
    inserted,       \* number of record operations so far; the n-th record carries payload n
    lateOps,        \* operations other than plain records made after the first MaxSmall records
    removals,       \* TRUE once a remove or a clear has run
    apiImpl,        \* which REST client is in use: "client" | "rest" | "fe"
    routeStatus,    \* the server: HTTP status each route answers with, 0 when it cannot be reached
    errorBody,      \* the server: what the body of a non-2xx answer holds
    apiPc,          \* the predict call: "idle" | "awaiting" | "done"
    apiCalls,       \* the routes requested so far, in order
    apiOutcome,     \* what the last predict call gave its caller
    liveImpl,       \* which live-typing component is mounted: "comp" | "p18" | "p13"
    text,           \* the text the component renders with (state, or prop for "p13")
    prevText,       \* the text before the last edit
    edits,          \* number of user edits and toggles so far
    sinceEdit,      \* ticks since the last edit (capped)
    lastGap,        \* ticks between the last edit and the one before it (capped)
    debounced,      \* useDebounce: debouncedValue
    isEnabled,      \* "p18": the isEnabled switch
    timers,         \* the pending timeouts: records [id, value, left]
    debounceTimer,  \* useDebouncedCallback: the debounceTimer state, 0 when undefined
    effectTimer,    \* the timer id the registered effect cleanup clears, 0 when undefined
    rerender,       \* "p13": a render scheduled by an effect: "none" | "scheduled" | "late"
    liveResult,     \* the live result state: NoResult or <<sequence number of its request>>
    loading,        \* useSentiment: loading
    liveError,      \* useSentiment: error, NoResult or <<sequence number of the failed request>>
    sent,           \* the texts of the live requests handed to the transport, in order
    inflight,       \* sequence numbers of the requests not yet answered
    failed,         \* sequence numbers of the requests that failed
    lateIssue,      \* TRUE once a request was issued after some response had arrived
    supplied,       \* <<v>>: the value last supplied to the debouncer, <<>> before any
    quiet,          \* ticks since that supply (capped)
    fires,          \* times the debouncer has fired since that supply
    firedWith,      \* <<v>>: the value the debouncer last fired with
    batchPc,        \* predictBatch: "idle" | "sent" | "forwarded" | "done"
    batchWire,      \* the request on its way: [via, texts], NoRequest when none
    transportLog,   \* the batch requests handed to the transport: [via, size]
    backendLog,     \* the sizes of the batch requests that reached the backend
    batchLoading,   \* useBatchPrediction: loading
    batchError,     \* useBatchPrediction: error, <<>> for null
    batchResults,   \* useBatchPrediction: results, <<>> for null, <<n>> for n results
    exImpl,         \* explicit prediction: "hook" | "p13"
    useGraphQL,     \* store: useGraphQL
    exPc,           \* predict: "idle" | "sent"
    exReq,          \* the request in flight: [text, via], NoRequest when none
    submitted,      \* explicit predictions sent so far
    probing,        \* live probes sent so far
    currentResult,  \* store: currentResult (hook: result), <<>> for null
    isLoading,      \* store: isLoading (hook: loading)
    exError,        \* store: error (hook: error), <<>> for null
    exHistory,      \* store: history
    exStats,        \* store: stats
    exOutcome,      \* how the last predict ended: "none" | "invalid" | "success" | "failure"
    exResponse,     \* the response the last predict received
    exBefore,       \* <<history, stats, currentResult>> when the last predict was submitted
    exHandledAs,    \* the transport whose answer handling the last predict ran
    toggledInFlight,\* useGraphQL was toggled while the last predict was in flight
    probes,         \* the live probes in flight, counted by transport
    probeResult,    \* liveResult of useSentimentPrediction, <<>> for null
    mounted,        \* the live component is mounted
    closureOf,      \* timer id -> the useGraphQL its callback closed over
    sentVia,        \* per live request: TRUE when it went to the GraphQL client
    staleClient,    \* a live request went to the client the store's mode did not name
    lateFire,       \* a debounced callback ran after the component was unmounted
    toggles,        \* toggles of the transport mode so far
    histPc,         \* the history component: "mounting" until its load effect ran, then "mounted"
    loads,          \* loads from storage so far
    loadThrew,      \* the last load let an error out to its caller
    fallback,       \* loadFromLocalStorage: its defaultValue; [] for the React states
    liveTypingOn    \* src/lib/store.ts: enableLiveTyping

statVars == <<statsImpl, stats, feStats, latLog>>

histVars == <<histImpl, now, history, view, blob, inserted, lateOps, removals>>

apiVars == <<apiImpl, routeStatus, errorBody, apiPc, apiCalls, apiOutcome>>

inputVars == <<text, prevText, edits, sinceEdit, lastGap>>

timerVars == <<timers, debounceTimer, effectTimer, rerender>>

requestVars == <<sent, inflight, failed, lateIssue>>

debounceGhost == <<supplied, quiet, fires, firedWith>>

liveVars == <<liveImpl, inputVars, debounced, isEnabled, timerVars, liveResult, loading, liveError,
              requestVars, debounceGhost>>

batchVars == <<batchPc, batchWire, transportLog, backendLog, batchLoading, batchError, batchResults>>

storeVars == <<currentResult, isLoading, exError, exHistory, exStats>>

exGhost == <<exOutcome, exResponse, exBefore, exHandledAs, toggledInFlight>>

probeVars == <<probing, probes, probeResult>>

exVars == <<exImpl, useGraphQL, exPc, exReq, submitted, storeVars, exGhost, probeVars>>

sessionVars == <<mounted, closureOf, sentVia, staleClient, lateFire, toggles>>

loadVars == <<histPc, loads, loadThrew, fallback>>

switchVars == <<liveTypingOn>>

vars == <<statVars, histVars, apiVars, liveVars, batchVars, exVars, sessionVars, loadVars, switchVars>>

notStats == <<histVars, apiVars, liveVars, batchVars, exVars, sessionVars, loadVars,
              switchVars>>

notHist == <<statVars, apiVars, liveVars, batchVars, exVars, sessionVars, loadVars,
             switchVars>>

notApi == <<statVars, histVars, liveVars, batchVars, exVars, sessionVars, loadVars,
            switchVars>>

notLive == <<statVars, histVars, apiVars, batchVars, exVars, sessionVars, loadVars,
             switchVars>>

notBatch == <<statVars, histVars, apiVars, liveVars, exVars, sessionVars, loadVars,
              switchVars>>

notEx == <<statVars, histVars, apiVars, liveVars, batchVars, sessionVars, loadVars,
           switchVars>>

\* what a step of the live session over the store leaves alone
notSession == <<statVars, histVars, apiVars, batchVars, exImpl, exPc, exReq, submitted, storeVars,
                exGhost, probeVars, loadVars, switchVars>>

\* what a load from storage leaves alone
notLoad == <<statVars, apiVars, liveVars, batchVars, exVars, sessionVars, switchVars>>

notSwitch == <<statVars, histVars, apiVars, liveVars, batchVars, exVars, sessionVars, loadVars>>

(***************************************************************************)
(* Numbers.  A JavaScript number that is a quotient of integers is kept    *)
(* as the reduced fraction <<numerator, denominator>>.                     *)
(***************************************************************************)
RECURSIVE GCD(_, _)
GCD(a, b) ==
    IF b = 0 THEN a ELSE GCD(b, a % b)

Rat(n, d) ==
    LET g == GCD(n, d) IN <<n \div g, d \div g>>

RECURSIVE SumSeq(_)
SumSeq(s) ==
    IF s = <<>> THEN 0 ELSE Head(s) + SumSeq(Tail(s))

\* Array.prototype.slice(-n): the last n elements
SliceLast(s, n) ==
    IF Len(s) <= n THEN s ELSE SubSeq(s, Len(s) - n + 1, Len(s))

\* Array.prototype.slice(0, n): the first n elements
SliceFirst(s, n) ==
    IF Len(s) <= n THEN s ELSE SubSeq(s, 1, n)

Null == "null"

Min(a, b) ==
    IF a <= b THEN a ELSE b

\* localStorage: the value a key holds after setItem, and an absent key
Stored(h) == <<h>>

NoItem == <<>>

(***************************************************************************)
(* History stores                                                          *)
(*   "lib"   src/lib/store.ts                 zustand store, ids Date.now() *)
(*   "fe"    src/frontend/lib/store.ts        zustand store, no ids         *)
(*   "hook"  src/hooks/useSentiment.ts:207    useAnalysisHistory, persisted *)
(*   "hook2" src/hooks/useSentiment.ts:481    useAnalysisHistory, ids       *)
(*   "ah"    src/components/AnalysisHistory.tsx:27  component state         *)
(* An entry is [id, n]: n is the payload (text and result) of the n-th      *)
(* record; an id is <<ms>> for Date.now().toString(), <<ms, suffix>> for    *)
(* `${Date.now()}_${random}` and <<>> where the entry has no id.            *)
(***************************************************************************)
HISTORY_CAP == 100

HISTORY_KEEP == 99

\* bounds of the history runs
MaxInserts == 150
MaxSmall == 2
MaxLateOps == 1

\* loads from storage explored per mount
MaxLoads == 2

\* Array.prototype.filter((item) => item.id !== id)
FilterOutId(h, id) ==
    SelectSeq(h, LAMBDA item : item.id # id)

\* Array.prototype.filter((_, i) => i !== index), index counted from 0
FilterOutIndex(h, index) ==
    IF index \in 0..(Len(h) - 1)
    THEN SubSeq(h, 1, index) \o SubSeq(h, index + 2, Len(h))
    ELSE h

\* a record that goes to the tail
libAddToHistoryAtTail(h, item) ==
    SliceFirst(h, HISTORY_KEEP) \o <<item>>

\* src/lib/store.ts addToHistory
libAddToHistory(h, item) ==
    <<item>> \o SliceFirst(h, HISTORY_KEEP)

\* src/frontend/lib/store.ts addToHistory
feAddToHistory(h, item) ==
    Append(h, item)

\* src/hooks/useSentiment.ts:212
hookAddToHistory(prev, result) ==
    <<result>> \o SliceFirst(prev, HISTORY_KEEP)

\* src/hooks/useSentiment.ts:498
hook2AddToHistory(prev, entry) ==
    SliceFirst(<<entry>> \o prev, HISTORY_CAP)

\* src/components/AnalysisHistory.tsx:91
ahUpdatedHistory(h, historyItem) ==
    SliceFirst(<<historyItem>> \o h, HISTORY_CAP)

\* the runs explored: anything during the first MaxSmall records; afterwards
\* records one clock tick apart, each rendered before the next, except for
\* up to MaxLateOps other steps while the record count is within one of the cap
Early ==
    inserted <= MaxSmall

AroundCap ==
    /\ inserted >= HISTORY_CAP - 1
    /\ inserted <= HISTORY_CAP + 1
    /\ lateOps < MaxLateOps

MayDisrupt ==
    Early \/ AroundCap

Disrupted ==
    /\ lateOps' = IF Early THEN lateOps ELSE lateOps + 1
    /\ removals' = TRUE

\* ms elapsed on the clock since the previous record read it
Elapsed ==
    IF MayDisrupt THEN {0, 1} ELSE {1}

\* Math.random().toString(36).substr(2, 9): a fresh suffix, or a repeat of the newest entry's
Suffixes ==
    {inserted + 1} \cup
        (IF MayDisrupt /\ view # <<>> /\ Len(view[1].id) = 2 THEN {view[1].id[2]} ELSE {})

\* ids handed to remove: those of the newest, second and oldest entry shown, and one no entry has
IdInputs(h) ==
    {h[i].id : i \in {1, 2, Len(h)} \cap DOMAIN h} \cup {<<now + 1>>}

IndexInputs(h) ==
    {0, 1, Len(h) - 1, Len(h)}

Recorded(elapsed) ==
    /\ inserted < MaxInserts
    /\ inserted' = inserted + 1
    /\ now' = now + elapsed
    /\ lateOps' = IF elapsed = 0 /\ ~Early THEN lateOps + 1 ELSE lateOps

LibAddToHistory ==
    /\ histImpl = "lib"
    /\ \E elapsed \in Elapsed :
          /\ Recorded(elapsed)
          /\ history' = libAddToHistory(history, [id |-> <<now'>>, n |-> inserted'])
    /\ UNCHANGED <<histImpl, view, blob, removals, notHist>>

\* a clear that starts the prediction count over as well
LibClearHistoryResetsStats ==
    /\ histImpl = "lib"
    /\ MayDisrupt
    /\ Disrupted
    /\ history' = <<>>
    /\ stats' = [stats EXCEPT !.totalPredictions = 0]
    /\ UNCHANGED <<histImpl, now, view, blob, inserted, statsImpl, feStats, latLog, apiVars,
                   liveVars, batchVars, exVars, sessionVars, loadVars, switchVars>>

LibClearHistory ==
    /\ histImpl = "lib"
    /\ MayDisrupt
    /\ Disrupted
    /\ history' = <<>>
    /\ UNCHANGED <<histImpl, now, view, blob, inserted, notHist>>

LibRemoveId(id) ==
    /\ histImpl = "lib"
    /\ MayDisrupt
    /\ Disrupted
    /\ history' = FilterOutId(history, id)
    /\ UNCHANGED <<histImpl, now, view, blob, inserted, notHist>>

LibRemoveFromHistory ==
    \E id \in IdInputs(history) : LibRemoveId(id)

FeAddToHistory ==
    /\ histImpl = "fe"
    /\ \E elapsed \in Elapsed :
          /\ Recorded(elapsed)
          /\ history' = feAddToHistory(history, [id |-> <<>>, n |-> inserted'])
    /\ UNCHANGED <<histImpl, view, blob, removals, notHist>>

FeClearHistory ==
    /\ histImpl = "fe"
    /\ MayDisrupt
    /\ Disrupted
    /\ history' = <<>>
    /\ UNCHANGED <<histImpl, now, view, blob, inserted, notHist>>

FeRemoveIndex(index) ==
    /\ histImpl = "fe"
    /\ MayDisrupt
    /\ Disrupted
    /\ history' = FilterOutIndex(history, index)
    /\ UNCHANGED <<histImpl, now, view, blob, inserted, notHist>>

FeRemoveFromHistory ==
    \E index \in IndexInputs(history) : FeRemoveIndex(index)

HookAddToHistory ==
    /\ histImpl = "hook"
    /\ \E elapsed \in Elapsed :
          /\ Recorded(elapsed)
          /\ LET newHistory == hookAddToHistory(history, [id |-> <<>>, n |-> inserted'])
             IN  /\ blob' = Stored(newHistory)
                 /\ history' = newHistory
    /\ UNCHANGED <<histImpl, view, removals, notHist>>

HookClearHistory ==
    /\ histImpl = "hook"
    /\ MayDisrupt
    /\ Disrupted
    /\ history' = <<>>
    /\ blob' = NoItem
    /\ UNCHANGED <<histImpl, now, view, inserted, notHist>>

HookRemoveIndex(index) ==
    /\ histImpl = "hook"
    /\ MayDisrupt
    /\ Disrupted
    /\ LET newHistory == FilterOutIndex(history, index)
       IN  /\ blob' = Stored(newHistory)
           /\ history' = newHistory
    /\ UNCHANGED <<histImpl, now, view, inserted, notHist>>

HookRemoveFromHistory ==
    \E index \in IndexInputs(history) : HookRemoveIndex(index)

Hook2AddToHistory ==
    /\ histImpl = "hook2"
    /\ \E elapsed \in Elapsed :
          /\ Recorded(elapsed)
          /\ history' = hook2AddToHistory(history, [id |-> <<now'>>, n |-> inserted'])
    /\ UNCHANGED <<histImpl, view, blob, removals, notHist>>

Hook2ClearHistory ==
    /\ histImpl = "hook2"
    /\ MayDisrupt
    /\ Disrupted
    /\ history' = <<>>
    /\ UNCHANGED <<histImpl, now, view, blob, inserted, notHist>>

\* the handlers of AnalysisHistory read `history` as their render captured it
AhFresh ==
    view = history

AhSaveToHistory ==
    /\ histImpl = "ah"
    /\ AhFresh \/ MayDisrupt
    /\ \E elapsed \in Elapsed, suffix \in Suffixes :
          /\ inserted < MaxInserts
          /\ inserted' = inserted + 1
          /\ now' = now + elapsed
          /\ lateOps' = IF (elapsed = 0 \/ suffix # inserted' \/ ~AhFresh) /\ ~Early
                        THEN lateOps + 1 ELSE lateOps
          /\ LET updatedHistory == ahUpdatedHistory(view, [id |-> <<now', suffix>>, n |-> inserted'])
             IN  /\ history' = updatedHistory
                 /\ blob' = Stored(updatedHistory)
    /\ UNCHANGED <<histImpl, view, removals, notHist>>

AhClearHistory ==
    /\ histImpl = "ah"
    /\ MayDisrupt
    /\ Disrupted
    /\ history' = <<>>
    /\ blob' = NoItem
    /\ UNCHANGED <<histImpl, now, view, inserted, notHist>>

AhDeleteId(id) ==
    /\ histImpl = "ah"
    /\ MayDisrupt
    /\ Disrupted
    /\ LET updatedHistory == FilterOutId(view, id)
       IN  /\ history' = updatedHistory
           /\ blob' = Stored(updatedHistory)
    /\ UNCHANGED <<histImpl, now, view, inserted, notHist>>

AhDeleteItem ==
    \E id \in IdInputs(view) \cup IdInputs(history) : AhDeleteId(id)

\* React re-renders the component after setHistory: the next closures see the new state
AhRender ==
    /\ histImpl = "ah"
    /\ ~AhFresh
    /\ view' = history
    /\ UNCHANGED <<histImpl, now, history, blob, inserted, lateOps, removals, notHist>>

\* the second AnalysisHistory of src/components/AnalysisHistory.tsx ("ah2"): every
\* handler ends in saveHistory, ids are Date.now().toString()
Ah2AddToHistory ==
    /\ histImpl = "ah2"
    /\ AhFresh \/ MayDisrupt
    /\ \E elapsed \in Elapsed :
          /\ inserted < MaxInserts
          /\ inserted' = inserted + 1
          /\ now' = now + elapsed
          /\ lateOps' = IF (elapsed = 0 \/ ~AhFresh) /\ ~Early THEN lateOps + 1 ELSE lateOps
          /\ LET newHistory == ahUpdatedHistory(view, [id |-> <<now'>>, n |-> inserted'])
             IN  /\ history' = newHistory
                 /\ blob' = Stored(newHistory)
    /\ UNCHANGED <<histImpl, view, removals, notHist>>

\* the clear that forgets the stored copy
Ah2ClearHistoryKeepsBlob ==
    /\ histImpl = "ah2"
    /\ MayDisrupt
    /\ Disrupted
    /\ history' = <<>>
    /\ UNCHANGED <<histImpl, now, view, blob, inserted, notHist>>

Ah2ClearHistory ==
    /\ histImpl = "ah2"
    /\ MayDisrupt
    /\ Disrupted
    /\ history' = <<>>
    /\ blob' = Stored(<<>>)
    /\ UNCHANGED <<histImpl, now, view, inserted, notHist>>

Ah2DeleteId(id) ==
    /\ histImpl = "ah2"
    /\ MayDisrupt
    /\ Disrupted
    /\ LET newHistory == FilterOutId(view, id)
       IN  /\ history' = newHistory
           /\ blob' = Stored(newHistory)
    /\ UNCHANGED <<histImpl, now, view, inserted, notHist>>

Ah2DeleteItem ==
    \E id \in IdInputs(view) \cup IdInputs(history) : Ah2DeleteId(id)

Ah2Render ==
    /\ histImpl = "ah2"
    /\ ~AhFresh
    /\ view' = history
    /\ UNCHANGED <<histImpl, now, history, blob, inserted, lateOps, removals, notHist>>

\* a stored text JSON.parse throws on
Unparsable ==
    <<<<>>, <<>>>>

\* JSON.parse of a stored text: the value Stored wrote, or a SyntaxError
JsonParse(item) ==
    IF Len(item) = 1 THEN [ok |-> TRUE, value |-> item[1]]
                     ELSE [ok |-> FALSE, value |-> <<>>]

\* the load effect with JSON.parse outside its try block
ahLoadEffectUncaught(current, item) ==
    IF item = NoItem
    THEN [history |-> current, threw |-> FALSE]
    ELSE LET parsed == JsonParse(item)
         IN  IF parsed.ok
             THEN [history |-> parsed.value, threw |-> FALSE]
             ELSE [history |-> current, threw |-> TRUE]

\* the load effect of AnalysisHistory (both variants): what the history state is after it
\* and whether an error left it
ahLoadEffect(current, item) ==
    IF item = NoItem
    THEN [history |-> current, threw |-> FALSE]
    ELSE LET parsed == JsonParse(item)
         IN  IF parsed.ok
             THEN [history |-> parsed.value, threw |-> FALSE]
             ELSE [history |-> current, threw |-> FALSE]

\* useAnalysisHistory: loadHistory
hookLoadHistory(current, item) ==
    IF item = NoItem
    THEN [history |-> current, threw |-> FALSE]
    ELSE LET parsed == JsonParse(item)
         IN  IF parsed.ok
             THEN [history |-> parsed.value, threw |-> FALSE]
             ELSE [history |-> current, threw |-> FALSE]

\* src/lib/utils.ts: loadFromLocalStorage(key, defaultValue)
loadFromLocalStorage(item, defaultValue) ==
    IF item = NoItem
    THEN [history |-> defaultValue, threw |-> FALSE]
    ELSE LET parsed == JsonParse(item)
         IN  IF parsed.ok
             THEN [history |-> parsed.value, threw |-> FALSE]
             ELSE [history |-> defaultValue, threw |-> FALSE]

\* what an earlier session may have left under the history key
PriorId(impl) ==
    IF impl = "ah" THEN <<-1, 0>> ELSE IF impl = "ah2" THEN <<-1>> ELSE <<>>

PriorHistory(impl) ==
    <<[id |-> PriorId(impl), n |-> 0]>>

PriorItems(impl) ==
    {NoItem, Unparsable, Stored(PriorHistory(impl))}

Loaded(outcome) ==
    /\ loads < MaxLoads
    /\ loads' = loads + 1
    /\ history' = outcome.history
    /\ loadThrew' = outcome.threw
    /\ UNCHANGED <<histImpl, now, view, blob, inserted, lateOps, removals, fallback, notLoad>>

\* the load effect runs once, after the first render and before any handler
AhMount ==
    /\ histImpl \in {"ah", "ah2"}
    /\ histPc = "mounting"
    /\ histPc' = "mounted"
    /\ Loaded(ahLoadEffect(history, blob))

\* loadHistory is handed to the caller, who may call it at any time
HookLoadHistory ==
    /\ histImpl = "hook"
    /\ Loaded(hookLoadHistory(history, blob))
    /\ UNCHANGED histPc

\* src/lib/utils.ts: the caller keeps what loadFromLocalStorage returns
UtilLoad ==
    /\ histImpl = "util"
    /\ Loaded(loadFromLocalStorage(blob, fallback))
    /\ UNCHANGED histPc

\* saveToLocalStorage(key, data)
UtilSave ==
    /\ histImpl = "util"
    /\ \E data \in {<<>>, history, PriorHistory("util")} : blob' = Stored(data)
    /\ UNCHANGED <<histImpl, now, history, view, inserted, lateOps, removals, loadVars, notLoad>>

\* removeFromLocalStorage(key)
UtilRemove ==
    /\ histImpl = "util"
    /\ blob' = NoItem
    /\ UNCHANGED <<histImpl, now, history, view, inserted, lateOps, removals, loadVars, notLoad>>

(***************************************************************************)
(* Stats aggregator                                                        *)
(***************************************************************************)
STATS_WINDOW == 100

\* bounds of the stats runs
MaxCalls == 102
MaxLatency == 2

InitialStats ==
    [totalPredictions |-> 0, averageResponseTime |-> Null, responseTimes |-> <<>>]

FeInitialStats ==
    [responseTime |-> <<0, 1>>, count |-> 0]

ReduceAverage(newResponseTimes) ==
    Rat(SumSeq(newResponseTimes), Len(newResponseTimes))

\* a count derived from the window stops at its size
TotalFromWindow(state, newResponseTimes) ==
    Len(newResponseTimes)

NextTotal(state, newResponseTimes) ==
    state.totalPredictions + 1

updateStats(state, responseTime) ==
    LET newResponseTimes == SliceLast(Append(state.responseTimes, responseTime), STATS_WINDOW)
        averageResponseTime == ReduceAverage(newResponseTimes)
    IN  [totalPredictions |-> NextTotal(state, newResponseTimes),
         averageResponseTime |-> averageResponseTime,
         responseTimes |-> newResponseTimes]

feUpdateStats(state, responseTime) ==
    [responseTime |-> Rat(state.responseTime[1] * state.count + responseTime * state.responseTime[2],
                          state.responseTime[2] * (state.count + 1)),
     count |-> state.count + 1]

\* the latencies a run may record: response times do not improve within a run
Latencies ==
    {l \in 1..MaxLatency : latLog = <<>> \/ l >= latLog[Len(latLog)]}

UpdateStats ==
    /\ statsImpl = "lib"
    /\ Len(latLog) < MaxCalls
    /\ \E responseTime \in Latencies :
          /\ stats' = updateStats(stats, responseTime)
          /\ latLog' = Append(latLog, responseTime)
    /\ UNCHANGED <<statsImpl, feStats, notStats>>

FeUpdateStats ==
    /\ statsImpl = "fe"
    /\ Len(latLog) < MaxCalls
    /\ \E responseTime \in Latencies :
          /\ feStats' = feUpdateStats(feStats, responseTime)
          /\ latLog' = Append(latLog, responseTime)
    /\ UNCHANGED <<statsImpl, stats, notStats>>


(***************************************************************************)
(* REST prediction clients                                                 *)
(*   "client": ApiClient of src/lib/api.ts (fetch, POST /api/predict)      *)
(*   "rest":   RestApi of src/lib/api.ts (fetch, POST /predict)            *)
(*   "fe":     restApi of src/frontend/lib/api.ts (axios, POST /api/predict)*)
(***************************************************************************)
\* bound of the model
MaxApiCalls == 2

Routes == {"/api/predict", "/predict"}

Statuses == {0, 200, 404, 500}

ErrorBodies == {"detail", "json", "text", "empty"}

PredictRoute(impl) ==
    IF impl = "rest" THEN "/predict" ELSE "/api/predict"

\* response.ok
Ok(status) ==
    status >= 200 /\ status <= 299

NoOutcome ==
    [kind |-> "none", data |-> <<>>]

Returned(route) ==
    [kind |-> "ok", data |-> <<route>>]

Thrown(message) ==
    [kind |-> "error", data |-> message]

\* ApiClient.request: errorJson.detail || errorMessage, or errorText || errorMessage
clientErrorMessage(status, body) ==
    CASE body = "detail" -> <<"detail">>
      [] body = "json" -> <<"HTTP", status>>
      [] body = "text" -> <<"text">>
      [] OTHER -> <<"HTTP", status>>

\* RestApi.request: response.json().catch(() => ({ detail: "Request failed" }))
restErrorDetail(status, body) ==
    CASE body = "detail" -> <<"detail">>
      [] body = "json" -> <<"HTTP", status>>
      [] OTHER -> <<"Request failed">>

\* axios response interceptor: error.response?.data?.detail || error.message
feErrorDetail(status, body) ==
    IF body = "detail" THEN <<"detail">> ELSE <<"Request failed with status code", status>>

ErrorOf(impl, status, body) ==
    CASE impl = "client" -> clientErrorMessage(status, body)
      [] impl = "rest" -> restErrorDetail(status, body)
      [] OTHER -> feErrorDetail(status, body)

\* the outcome of one request once the route has answered (or failed to)
Settle(impl, route, status, body) ==
    IF status = 0 THEN Thrown(<<"network">>)
    ELSE IF Ok(status) THEN Returned(route)
    ELSE Thrown(ErrorOf(impl, status, body))

\* predict / analyzeSentiment up to the await of the one request it makes
ApiPredict ==
    /\ apiPc = "idle"
    /\ Len(apiCalls) < MaxApiCalls
    /\ apiCalls' = Append(apiCalls, PredictRoute(apiImpl))
    /\ apiOutcome' = NoOutcome
    /\ apiPc' = "awaiting"
    /\ UNCHANGED <<apiImpl, routeStatus, errorBody, notApi>>

\* the request settles and the call returns or throws
ApiSettle ==
    /\ apiPc = "awaiting"
    /\ LET route == apiCalls[Len(apiCalls)]
       IN  apiOutcome' = Settle(apiImpl, route, routeStatus[route], errorBody)
    /\ apiPc' = "done"
    /\ UNCHANGED <<apiImpl, routeStatus, errorBody, apiCalls, notApi>>

\* the caller has taken the outcome; the server may answer differently next time
ApiNext ==
    /\ apiPc = "done"
    /\ Len(apiCalls) < MaxApiCalls
    /\ apiPc' = "idle"
    /\ routeStatus' \in [Routes -> Statuses]
    /\ UNCHANGED <<apiImpl, errorBody, apiCalls, apiOutcome, notApi>>

(***************************************************************************)
(* Live typing                                                             *)
(*   "comp": src/components/LiveTypingInference.tsx, useDebounce(text,1000)*)
(*   "p18":  src/unnamed/part_018, useDebounce(text, 500), isEnabled switch*)
(*   "p13":  src/frontend/components/LiveTypingInference.tsx over          *)
(*           useSentimentPrediction of src/unnamed/part_013, whose         *)
(*           predictLive wraps useDebouncedCallback; its store is          *)
(*           src/frontend/lib/store.ts                                     *)
(* "comp" and "p18" take analyzeSentiment from the memoized useSentiment   *)
(* of src/hooks/useSentiment.ts:382-402.                                   *)
(* Time advances in ticks of 250 ms.  A render caused by a user event or a *)
(* timer runs with its effects in the step of that event; a render that an *)
(* effect schedules runs within one tick.                                  *)
(***************************************************************************)
\* bounds of the model
MaxEdits == 3
MaxRequests == 3

COMP_DELAY == 1000
P18_DELAY == 500
DEFAULT_DELAY == 500
LIVE_MIN_TRIMMED == 3
COMP_MIN_LENGTH == 10
P18_MIN_LENGTH == 10

Ticks(ms) ==
    ms \div 250

\* getDebounceDelay() with NEXT_PUBLIC_DEBOUNCE_DELAY unset
getDebounceDelay ==
    DEFAULT_DELAY

Delay(impl) ==
    CASE impl = "comp" -> Ticks(COMP_DELAY)
      [] impl = "p18" -> Ticks(P18_DELAY)
      [] OTHER -> Ticks(getDebounceDelay)

QuietCap ==
    Ticks(COMP_DELAY) + 1

\* src/frontend/lib/store.ts: enableLiveTyping has no setter; useGraphQL is false
\* there and has none either, so debouncedLivePredict takes its restApi branch
enableLiveTyping == TRUE

NoText == <<>>

Blank == <<" ", " ", " ", " ">>

Ten == <<"I", " ", "l", "o", "v", "e", " ", "i", "t", "!">>

Love == <<"I", " ", "l", "o", "v", "e", " ", "t", "h", "i", "s">>

LoveProduct == Love \o <<" ", "p", "r", "o", "d", "u", "c", "t">>

Texts == {NoText, Blank, Ten, Love, LoveProduct}

Whitespace == {" "}

RECURSIVE TrimStart(_)
TrimStart(s) ==
    IF s # <<>> /\ Head(s) \in Whitespace THEN TrimStart(Tail(s)) ELSE s

RECURSIVE TrimEnd(_)
TrimEnd(s) ==
    IF s # <<>> /\ s[Len(s)] \in Whitespace THEN TrimEnd(SubSeq(s, 1, Len(s) - 1)) ELSE s

\* String.prototype.trim
Trim(s) ==
    TrimEnd(TrimStart(s))

NoResult == <<>>

\* setTimeout, clearTimeout and the id a new timeout gets
Arm(ts, id, value, delay) ==
    ts \cup {[id |-> id, value |-> value, left |-> delay]}

KeepTimeout(ts, id) ==
    ts

ClearTimeout(ts, id) ==
    {t \in ts : t.id # id}

FreshId(ts, refs) ==
    LET used == {t.id : t \in ts} \cup refs
    IN  CHOOSE i \in 1..(Cardinality(used) + 1) : i \notin used /\ \A j \in 1..(i - 1) : j \in used

Due ==
    {t \in timers : t.left = 0}

\* the debouncer is handed a value
Supplied(v) ==
    /\ supplied' = <<v>>
    /\ quiet' = 0
    /\ fires' = 0
    /\ UNCHANGED firedWith

\* the debouncer fires with a value
Fired(v) ==
    /\ fires' = IF fires < 2 THEN fires + 1 ELSE fires
    /\ firedWith' = <<v>>
    /\ UNCHANGED <<supplied, quiet>>

\* the user edits the text
Edited(t) ==
    /\ edits < MaxEdits
    /\ t # text
    /\ text' = t
    /\ prevText' = text
    /\ edits' = edits + 1
    /\ lastGap' = sinceEdit
    /\ sinceEdit' = 0

\* a request is handed to the transport
Issue(d) ==
    /\ Len(sent) < MaxRequests
    /\ sent' = Append(sent, d)
    /\ inflight' = inflight \cup {Len(sent) + 1}
    /\ lateIssue' = (lateIssue \/ Len(sent) > Cardinality(inflight))
    /\ UNCHANGED failed

\* a request is answered
Answered(seq, ok) ==
    /\ seq \in inflight
    /\ inflight' = inflight \ {seq}
    /\ failed' = IF ok THEN failed ELSE failed \cup {seq}
    /\ UNCHANGED <<sent, lateIssue>>

\* useDebounce: the effect on [value, actualDelay] runs again
UseDebounceEffect(value) ==
    LET handler == FreshId(timers, {effectTimer})
    IN  /\ timers' = Arm(ClearTimeout(timers, effectTimer), handler, value, Delay(liveImpl))
        /\ effectTimer' = handler
        /\ Supplied(value)
        /\ UNCHANGED <<debounceTimer, rerender>>

\* src/components/LiveTypingInference.tsx: the effect on [debouncedText, analyzeSentiment];
\* isAnalyzing is set and cleared together with loading
CompAnalysisEffect(debouncedText) ==
    IF Trim(debouncedText) = <<>> \/ Len(debouncedText) < COMP_MIN_LENGTH
    THEN /\ liveResult' = NoResult
         /\ UNCHANGED <<loading, liveError, requestVars>>
    ELSE /\ Issue(debouncedText)
         /\ loading' = TRUE
         /\ liveError' = NoResult
         /\ UNCHANGED liveResult

CompTextChange ==
    /\ liveImpl = "comp"
    /\ \E t \in Texts :
          /\ Edited(t)
          /\ UseDebounceEffect(t)
    /\ UNCHANGED <<liveImpl, debounced, isEnabled, liveResult, loading, liveError, requestVars, notLive>>

\* the useDebounce timeout runs setDebouncedValue(value); a changed value re-runs the effect
CompTimerFire ==
    /\ liveImpl = "comp"
    /\ \E t \in Due :
          /\ timers' = timers \ {t}
          /\ Fired(t.value)
          /\ debounced' = t.value
          /\ IF t.value # debounced
             THEN CompAnalysisEffect(t.value)
             ELSE UNCHANGED <<liveResult, loading, liveError, requestVars>>
    /\ UNCHANGED <<liveImpl, inputVars, isEnabled, debounceTimer, effectTimer, rerender, notLive>>

\* analyzeSentiment settles: the result or, on failure, null reaches setResult
CompResponse ==
    /\ liveImpl = "comp"
    /\ \E seq \in inflight, ok \in BOOLEAN :
          /\ Answered(seq, ok)
          /\ liveResult' = IF ok THEN <<seq>> ELSE NoResult
          /\ liveError' = IF ok THEN liveError ELSE <<seq>>
    /\ loading' = FALSE
    /\ UNCHANGED <<liveImpl, inputVars, debounced, isEnabled, timerVars, debounceGhost, notLive>>

\* src/unnamed/part_018: the effect on [debouncedText, isEnabled, analyzeSentiment]
P18AnalysisEffect(debouncedText, enabled) ==
    IF Trim(debouncedText) # <<>> /\ enabled /\ Len(debouncedText) > P18_MIN_LENGTH
    THEN /\ Issue(debouncedText)
         /\ loading' = TRUE
         /\ liveError' = NoResult
         /\ UNCHANGED liveResult
    ELSE /\ liveResult' = NoResult
         /\ UNCHANGED <<loading, liveError, requestVars>>

P18TextChange ==
    /\ liveImpl = "p18"
    /\ \E t \in Texts :
          /\ Edited(t)
          /\ UseDebounceEffect(t)
    /\ UNCHANGED <<liveImpl, debounced, isEnabled, liveResult, loading, liveError, requestVars, notLive>>

P18Toggle ==
    /\ liveImpl = "p18"
    /\ edits < MaxEdits
    /\ edits' = edits + 1
    /\ isEnabled' = ~isEnabled
    /\ P18AnalysisEffect(debounced, ~isEnabled)
    /\ UNCHANGED <<liveImpl, text, prevText, sinceEdit, lastGap, debounced, timerVars, debounceGhost, notLive>>

P18TimerFire ==
    /\ liveImpl = "p18"
    /\ \E t \in Due :
          /\ timers' = timers \ {t}
          /\ Fired(t.value)
          /\ debounced' = t.value
          /\ IF t.value # debounced
             THEN P18AnalysisEffect(t.value, isEnabled)
             ELSE UNCHANGED <<liveResult, loading, liveError, requestVars>>
    /\ UNCHANGED <<liveImpl, inputVars, isEnabled, debounceTimer, effectTimer, rerender, notLive>>

\* analyzeSentiment(debouncedText).then(setResult): null on failure
P18Response ==
    /\ liveImpl = "p18"
    /\ \E seq \in inflight, ok \in BOOLEAN :
          /\ Answered(seq, ok)
          /\ liveResult' = IF ok THEN <<seq>> ELSE NoResult
          /\ liveError' = IF ok THEN liveError ELSE <<seq>>
    /\ loading' = FALSE
    /\ UNCHANGED <<liveImpl, inputVars, debounced, isEnabled, timerVars, debounceGhost, notLive>>

\* one render of the frontend component with text t: the cleanup of the
\* useDebouncedCallback effect when debounceTimer has changed, then the effect on
\* [text, enableLiveTyping, predictLive], which runs in every render because
\* predictLive is rebuilt from a debouncedCallback that is new in every render
P13Effects(t) ==
    LET cleaned == IF debounceTimer # effectTimer THEN ClearTimeout(timers, effectTimer) ELSE timers
        timer == FreshId(cleaned, {debounceTimer, effectTimer})
    IN  IF enableLiveTyping /\ Len(Trim(t)) > LIVE_MIN_TRIMMED
        THEN /\ timers' = Arm(ClearTimeout(cleaned, debounceTimer), timer, t, Delay(liveImpl))
             /\ debounceTimer' = timer
             /\ effectTimer' = debounceTimer
             /\ rerender' = "scheduled"
             /\ Supplied(t)
        ELSE /\ timers' = cleaned
             /\ effectTimer' = debounceTimer
             /\ rerender' = "none"
             /\ UNCHANGED <<debounceTimer, debounceGhost>>

P13TextChange ==
    /\ liveImpl = "p13"
    /\ \E t \in Texts :
          /\ Edited(t)
          /\ P13Effects(t)
    /\ UNCHANGED <<liveImpl, debounced, isEnabled, liveResult, loading, liveError, requestVars, notLive>>

\* the render that setDebounceTimer or setLiveResult scheduled
P13Render ==
    /\ liveImpl = "p13"
    /\ rerender # "none"
    /\ P13Effects(text)
    /\ UNCHANGED <<liveImpl, inputVars, debounced, isEnabled, liveResult, loading, liveError,
                   requestVars, notLive>>

\* the timeout of debouncedCallback runs debouncedLivePredict up to its await
P13TimerFire ==
    /\ liveImpl = "p13"
    /\ \E t \in Due :
          /\ timers' = timers \ {t}
          /\ Fired(t.value)
          /\ IF Trim(t.value) = <<>> \/ ~enableLiveTyping
             THEN /\ liveResult' = NoResult
                  /\ rerender' = IF liveResult # NoResult /\ rerender = "none"
                                 THEN "scheduled" ELSE rerender
                  /\ UNCHANGED requestVars
             ELSE /\ Issue(t.value)
                  /\ UNCHANGED <<liveResult, rerender>>
    /\ UNCHANGED <<liveImpl, inputVars, debounced, isEnabled, debounceTimer, effectTimer,
                   loading, liveError, notLive>>

\* restApi.predict settles: setLiveResult(result), or the catch that only logs
P13Response ==
    /\ liveImpl = "p13"
    /\ \E seq \in inflight, ok \in BOOLEAN :
          /\ Answered(seq, ok)
          /\ liveResult' = IF ok THEN <<seq>> ELSE liveResult
          /\ rerender' = IF ok /\ liveResult # <<seq>> /\ rerender = "none"
                         THEN "scheduled" ELSE rerender
    /\ UNCHANGED <<liveImpl, inputVars, debounced, isEnabled, timers, debounceTimer, effectTimer,
                   loading, liveError, debounceGhost, notLive>>

\* 250 ms pass: no timeout is overdue and no scheduled render waits longer than a tick
Tick ==
    /\ Due = {}
    /\ rerender # "late"
    /\ timers' = {[t EXCEPT !.left = @ - 1] : t \in timers}
    /\ rerender' = IF rerender = "scheduled" THEN "late" ELSE rerender
    /\ sinceEdit' = Min(sinceEdit + 1, QuietCap)
    /\ quiet' = Min(quiet + 1, QuietCap)
    /\ UNCHANGED <<liveImpl, text, prevText, edits, lastGap, debounced, isEnabled, debounceTimer,
                   effectTimer, liveResult, loading, liveError, requestVars, supplied, fires,
                   firedWith, notLive>>

\* the state after the first render and its effects
LiveInit(impl) ==
    /\ liveImpl = impl
    /\ text = NoText
    /\ prevText = NoText
    /\ edits = 0
    /\ sinceEdit = 0
    /\ lastGap = 0
    /\ debounced = NoText
    /\ isEnabled = TRUE
    /\ timers = IF impl = "p13" THEN {} ELSE Arm({}, 1, NoText, Delay(impl))
    /\ debounceTimer = 0
    /\ effectTimer = IF impl = "p13" THEN 0 ELSE 1
    /\ rerender = "none"
    /\ liveResult = NoResult
    /\ loading = FALSE
    /\ liveError = NoResult
    /\ sent = <<>>
    /\ inflight = {}
    /\ failed = {}
    /\ lateIssue = FALSE
    /\ supplied = IF impl = "p13" THEN <<>> ELSE <<NoText>>
    /\ quiet = 0
    /\ fires = 0
    /\ firedWith = <<>>

(***************************************************************************)
(* Batch prediction: predictBatch of useBatchPrediction                    *)
(* (src/hooks/useSentiment.ts:58-135) over restApi.predictBatch and        *)
(* graphqlApi.predictBatch (src/frontend/lib/api.ts), and the batch route  *)
(* of src/unnamed/part_003 between the REST client and the backend.        *)
(***************************************************************************)
\* bound of the model
MaxBatch == 102

ROUTE_BATCH_CAP == 100

NoRequest ==
    [via |-> "none", texts |-> <<>>]

\* n texts of which the first b are whitespace only
Batch(n, b) ==
    [i \in 1..n |-> IF i <= b THEN Blank ELSE Love]

BatchInputs ==
    {Batch(n, b) : n \in 0..MaxBatch, b \in {0, 1}} \cup {Batch(n, n) : n \in 1..2}

\* texts.filter((text) => text.trim())
FilterValid(texts) ==
    SelectSeq(texts, LAMBDA t : Trim(t) # <<>>)

\* predictBatch up to its first await, or to its early return
HookPredictBatch ==
    /\ batchPc = "idle"
    /\ \E texts \in BatchInputs, viaGraphQL \in BOOLEAN :
          LET validTexts == FilterValid(texts)
          IN  IF Len(texts) = 0
              THEN /\ batchError' = <<"No texts provided">>
                   /\ batchPc' = "done"
                   /\ UNCHANGED <<batchWire, transportLog, batchLoading>>
              ELSE IF Len(validTexts) = 0
              THEN /\ batchError' = <<"No valid texts provided">>
                   /\ batchPc' = "done"
                   /\ UNCHANGED <<batchWire, transportLog, batchLoading>>
              ELSE /\ batchLoading' = TRUE
                   /\ batchError' = <<>>
                   /\ batchWire' = [via |-> IF viaGraphQL THEN "graphql" ELSE "rest",
                                    texts |-> validTexts]
                   /\ transportLog' = Append(transportLog,
                                             [via |-> batchWire'.via, size |-> Len(validTexts)])
                   /\ batchPc' = "sent"
    /\ UNCHANGED <<backendLog, batchResults, notBatch>>

\* POST of the batch route: the length test, then the call of the backend
RoutePost ==
    /\ batchPc = "sent"
    /\ batchWire.via = "rest"
    /\ IF Len(batchWire.texts) > ROUTE_BATCH_CAP
       THEN /\ batchError' = feErrorDetail(400, "json")
            /\ batchLoading' = FALSE
            /\ batchPc' = "done"
            /\ batchWire' = NoRequest
            /\ UNCHANGED backendLog
       ELSE /\ backendLog' = Append(backendLog, Len(batchWire.texts))
            /\ batchPc' = "forwarded"
            /\ UNCHANGED <<batchError, batchLoading, batchWire>>
    /\ UNCHANGED <<transportLog, batchResults, notBatch>>

\* the backend answers the route, the route answers the hook
BackendAnswer ==
    /\ batchPc = "forwarded"
    /\ \E answer \in {"ok", "noresults", "error"} :
          /\ batchResults' = CASE answer = "ok" -> <<Len(batchWire.texts)>>
                               [] answer = "noresults" -> <<0>>
                               [] OTHER -> batchResults
          /\ batchError' = IF answer = "error" THEN feErrorDetail(500, "json") ELSE batchError
    /\ batchLoading' = FALSE
    /\ batchPc' = "done"
    /\ batchWire' = NoRequest
    /\ UNCHANGED <<transportLog, backendLog, notBatch>>

\* graphqlApi.predictBatch: POST /graphql goes to the backend as it is
GraphqlPost ==
    /\ batchPc = "sent"
    /\ batchWire.via = "graphql"
    /\ backendLog' = Append(backendLog, Len(batchWire.texts))
    /\ \E answer \in {"ok", "errors", "error"} :
          /\ batchResults' = IF answer = "ok" THEN <<Len(batchWire.texts)>> ELSE batchResults
          /\ batchError' = CASE answer = "ok" -> batchError
                             [] answer = "errors" -> <<"Failed to analyze batch sentiment">>
                             [] OTHER -> feErrorDetail(500, "json")
    /\ batchLoading' = FALSE
    /\ batchPc' = "done"
    /\ batchWire' = NoRequest
    /\ UNCHANGED <<transportLog, notBatch>>

(***************************************************************************)
(* Explicit prediction                                                     *)
(*   "hook": predict of useSentimentPrediction, src/hooks/useSentiment.ts, *)
(*           over restApi.predict and graphqlApi.predict of                *)
(*           src/frontend/lib/api.ts; result, loading and error are the    *)
(*           hook's own state                                              *)
(*   "p13":  predict of useSentimentPrediction, src/unnamed/part_013: a    *)
(*           mutation over restApi.predict and apolloClient.query          *)
(*           (errorPolicy "all", src/frontend/lib/apollo.ts), writing to   *)
(*           the store of src/lib/store.ts                                 *)
(***************************************************************************)
\* bounds of the model
MaxSubmits == 2
MaxProbes == 2

\* the response times a run may measure
ResponseTimes == {1, MaxLatency}

GqlData == {"result", "nullfield", "null"}

GqlErrors == {<<>>, <<"E1">>, <<"E2", "E1">>}

\* the answers of POST /graphql: a status and, at 200, the envelope { data, errors }
GqlResponses ==
    {[status |-> 200, errors |-> e, data |-> d] : e \in GqlErrors, d \in GqlData}
        \cup {[status |-> 500, errors |-> <<>>, data |-> "null"]}

\* the answers of POST /api/predict
RestResponses ==
    {[status |-> st, errors |-> <<>>, data |-> "result"] : st \in {200, 500}}

NoResponse ==
    [status |-> 0, errors |-> <<>>, data |-> "null"]

\* a call that returned; result is <<>> for null
Resolved(result) ==
    [ok |-> TRUE, result |-> result, detail |-> <<>>, message |-> <<>>]

\* a call that threw a value with these detail and message properties
Rejected(detail, message) ==
    [ok |-> FALSE, result |-> <<>>, detail |-> detail, message |-> message]

TypeErrorMessage ==
    <<"Cannot read properties of null">>

\* response.data.data!.predict, response.data.predict
PredictField(response, result) ==
    CASE response.data = "result" -> Resolved(result)
      [] response.data = "nullfield" -> Resolved(<<>>)
      [] OTHER -> Rejected(<<>>, TypeErrorMessage)

\* restApi.predict behind the axios response interceptor
restPredict(response, result) ==
    IF Ok(response.status) THEN Resolved(result)
    ELSE Rejected(feErrorDetail(response.status, "json"), <<>>)

\* the first message of the errors array is what a thrown Error carries
FirstMessage(errors) ==
    <<errors[1]>>

\* graphqlApi.predict
graphqlPredict(response, result) ==
    IF ~Ok(response.status) THEN Rejected(feErrorDetail(response.status, "json"), <<>>)
    ELSE IF response.errors # <<>> THEN Rejected(<<>>, FirstMessage(response.errors))
    ELSE PredictField(response, result)

\* apolloClient.query under errorPolicy "all", then response.data.predict
apolloPredict(response, result) ==
    IF ~Ok(response.status)
    THEN Rejected(<<>>, <<"Response not successful: Received status code", response.status>>)
    ELSE PredictField(response, result)

\* the transport call of one implementation
Transport(impl, via, response, result) ==
    CASE via = "rest" -> restPredict(response, result)
      [] impl = "hook" -> graphqlPredict(response, result)
      [] OTHER -> apolloPredict(response, result)

\* (err as ApiError).detail || "Failed to analyze sentiment"
hookErrorMessage(thrown) ==
    IF thrown.detail # <<>> THEN thrown.detail ELSE <<"Failed to analyze sentiment">>

\* detail: error.message || "Prediction failed"
p13ErrorDetail(thrown) ==
    IF thrown.message # <<>> THEN thrown.message ELSE <<"Prediction failed">>

ExTexts == {Blank, Love}

\* predict up to the await of its request
ExSubmit ==
    /\ exPc = "idle"
    /\ submitted < MaxSubmits
    /\ \E input \in ExTexts, viaGraphQL \in BOOLEAN :
          /\ exImpl = "p13" => viaGraphQL = useGraphQL
          /\ IF exImpl = "hook" /\ Trim(input) = <<>>
             THEN /\ exError' = <<"Text cannot be empty">>
                  /\ exOutcome' = "invalid"
                  /\ UNCHANGED <<exPc, exReq, submitted, isLoading, exBefore, toggledInFlight>>
             ELSE /\ isLoading' = TRUE
                  /\ toggledInFlight' = FALSE
                  /\ exError' = <<>>
                  /\ exReq' = [via |-> IF viaGraphQL THEN "graphql" ELSE "rest",
                               texts |-> <<input>>]
                  /\ submitted' = submitted + 1
                  /\ exBefore' = <<exHistory, exStats, currentResult>>
                  /\ exOutcome' = "none"
                  /\ exPc' = "sent"
    /\ UNCHANGED <<exImpl, useGraphQL, currentResult, exHistory, exStats, exResponse,
                   exHandledAs, probeVars, notEx>>

\* the hook's predict from the answer on: setResult, or the catch and finally
HookSettle(call) ==
    /\ currentResult' = IF call.ok THEN call.result ELSE currentResult
    /\ exError' = IF call.ok THEN exError ELSE hookErrorMessage(call)
    /\ isLoading' = FALSE
    /\ exOutcome' = IF call.ok THEN "success" ELSE "failure"
    /\ UNCHANGED <<exHistory, exStats>>

\* a mutation that counted the call before it knew how the call ended
P13SettleCountsFirst(call, responseTime) ==
    /\ exStats' = updateStats(exStats, responseTime)
    /\ currentResult' = IF call.ok THEN call.result ELSE currentResult
    /\ exHistory' = IF call.ok
                    THEN libAddToHistory(exHistory, [text |-> exReq.texts[1], result |-> call.result])
                    ELSE exHistory
    /\ exError' = IF call.ok THEN <<>> ELSE p13ErrorDetail(call)
    /\ isLoading' = FALSE
    /\ exOutcome' = IF call.ok THEN "success" ELSE "failure"

\* the mutation from the answer on: updateStats, then onSuccess or onError, then onSettled
P13Settle(call, responseTime) ==
    /\ exStats' = IF call.ok THEN updateStats(exStats, responseTime) ELSE exStats
    /\ currentResult' = IF call.ok THEN call.result ELSE currentResult
    /\ exHistory' = IF call.ok
                    THEN libAddToHistory(exHistory, [text |-> exReq.texts[1], result |-> call.result])
                    ELSE exHistory
    /\ exError' = IF call.ok THEN <<>> ELSE p13ErrorDetail(call)
    /\ isLoading' = FALSE
    /\ exOutcome' = IF call.ok THEN "success" ELSE "failure"

\* a continuation that looked the transport up in the store once the answer was in
StoreBranch(req) ==
    IF useGraphQL THEN "graphql" ELSE "rest"

\* the branch of if (useGraphQL) the call is suspended in: the one it took when it was made
AwaitedBranch(req) ==
    req.via

ExSettle ==
    /\ exPc = "sent"
    /\ \E response \in (IF exReq.via = "rest" THEN RestResponses ELSE GqlResponses),
          responseTime \in ResponseTimes :
          LET call == Transport(exImpl, AwaitedBranch(exReq), response, <<submitted>>)
          IN  /\ exResponse' = response
              /\ exHandledAs' = AwaitedBranch(exReq)
              /\ IF exImpl = "hook" THEN HookSettle(call) ELSE P13Settle(call, responseTime)
    /\ exPc' = "idle"
    /\ exReq' = NoRequest
    /\ UNCHANGED <<exImpl, useGraphQL, submitted, exBefore, toggledInFlight, probeVars, notEx>>

\* toggleGraphQL of the store
ToggleGraphQL ==
    /\ exImpl = "p13"
    /\ useGraphQL' = ~useGraphQL
    /\ toggledInFlight' = (toggledInFlight \/ exPc = "sent")
    /\ UNCHANGED <<exImpl, exPc, exReq, submitted, storeVars, exOutcome, exResponse,
                   exBefore, exHandledAs, probeVars, notEx>>

NoProbes ==
    [rest |-> 0, graphql |-> 0]

\* abortControllerRef.current.abort(): only the GraphQL query was given the signal
Abort(pending) ==
    [pending EXCEPT !.graphql = 0]

\* debouncedLivePredict runs, up to its await or its early return; useGraphQL and
\* enableLiveTyping are the values of the render that made the callback
P13ProbeFire ==
    /\ exImpl = "p13"
    /\ probing < MaxProbes
    /\ \E probeText \in ExTexts, viaGraphQL \in BOOLEAN, enabled \in BOOLEAN :
          IF Trim(probeText) = <<>> \/ ~enabled
          THEN /\ probeResult' = <<>>
               /\ UNCHANGED <<probes, probing>>
          ELSE /\ probes' = LET via == IF viaGraphQL THEN "graphql" ELSE "rest"
                              IN  [Abort(probes) EXCEPT ![via] = @ + 1]
               /\ probing' = probing + 1
               /\ UNCHANGED probeResult
    /\ UNCHANGED <<exImpl, useGraphQL, exPc, exReq, submitted, storeVars, exGhost, notEx>>

\* the effect of src/unnamed/part_017 hands the debounced text to the hook's predict
P17Probe ==
    /\ exImpl = "hook"
    /\ exPc = "idle"
    /\ probing < MaxProbes
    /\ \E debouncedText \in {Blank, Ten, Love} :
          /\ Trim(debouncedText) # <<>> /\ Len(debouncedText) > P18_MIN_LENGTH
          /\ exReq' = [via |-> "rest", texts |-> <<debouncedText>>]
    /\ probing' = probing + 1
    /\ isLoading' = TRUE
    /\ exError' = <<>>
    /\ exBefore' = <<exHistory, exStats, currentResult>>
    /\ exOutcome' = "none"
    /\ toggledInFlight' = FALSE
    /\ exPc' = "sent"
    /\ UNCHANGED <<exImpl, useGraphQL, submitted, currentResult, exHistory, exStats, exResponse,
                   exHandledAs, probes, probeResult, notEx>>

\* a probe that went through the mutation of the explicit path
P13ProbeSettleAsExplicit(call, responseTime) ==
    /\ probeResult' = IF call.ok THEN call.result ELSE probeResult
    /\ exStats' = IF call.ok THEN updateStats(exStats, responseTime) ELSE exStats
    /\ exHistory' = IF call.ok
                    THEN libAddToHistory(exHistory, [text |-> Love, result |-> call.result])
                    ELSE exHistory
    /\ UNCHANGED <<currentResult, isLoading, exError>>

\* debouncedLivePredict from the answer on: setLiveResult(result), or the catch that logs
P13ProbeSettle(call, responseTime) ==
    /\ probeResult' = IF call.ok THEN call.result ELSE probeResult
    /\ UNCHANGED storeVars

P13ProbeAnswer ==
    /\ exImpl = "p13"
    /\ \E via \in {"rest", "graphql"} :
          /\ probes[via] > 0
          /\ \E response \in (IF via = "rest" THEN RestResponses ELSE GqlResponses),
                responseTime \in ResponseTimes :
                P13ProbeSettle(Transport(exImpl, via, response, <<"live">>), responseTime)
          /\ probes' = [probes EXCEPT ![via] = @ - 1]
    /\ UNCHANGED <<exImpl, useGraphQL, exPc, exReq, submitted, probing, exGhost, notEx>>

(***************************************************************************)
(* The live session over the store of src/lib/store.ts                     *)
(* src/frontend/components/LiveTypingInference.tsx over                    *)
(* useSentimentPrediction of src/unnamed/part_013, as in "p13", with the   *)
(* store whose toggleGraphQL changes useGraphQL, and with the unmount of   *)
(* the component.  NEXT_PUBLIC_ENABLE_LIVE_TYPING is "true".               *)
(***************************************************************************)
\* bound of the model
MaxToggles == 1

NoClosures == <<>>

\* the callbacks of the timeouts that are left, and of the one this render armed
Closures(left, armed, graphql) ==
    [i \in {t.id : t \in left} |-> IF i \in armed THEN graphql ELSE closureOf[i]]

\* one render with text t and the store's useGraphQL as graphql: the effects of
\* "p13"; the callback a new timeout gets closes over this render's useGraphQL
S13Effects(t, graphql) ==
    /\ P13Effects(t)
    /\ closureOf' = Closures(timers', IF debounceTimer' # debounceTimer THEN {debounceTimer'} ELSE {},
                             graphql)

\* the texts of a session: none, and two that pass the length test of the effect
SessionTexts == {NoText, Love, LoveProduct}

S13TextChange ==
    /\ liveImpl = "p13"
    /\ mounted
    /\ \E t \in SessionTexts :
          /\ Edited(t)
          /\ S13Effects(t, useGraphQL)
    /\ UNCHANGED <<liveImpl, debounced, isEnabled, liveResult, loading, liveError, requestVars,
                   mounted, sentVia, staleClient, lateFire, toggles, useGraphQL, notSession>>

\* the render that setDebounceTimer or setLiveResult scheduled
S13Render ==
    /\ liveImpl = "p13"
    /\ mounted
    /\ rerender # "none"
    /\ S13Effects(text, useGraphQL)
    /\ UNCHANGED <<liveImpl, inputVars, debounced, isEnabled, liveResult, loading, liveError,
                   requestVars, mounted, sentVia, staleClient, lateFire, toggles, useGraphQL,
                   notSession>>

\* toggleGraphQL: the store changes and the component renders with the new mode
S13ToggleGraphQL ==
    /\ liveImpl = "p13"
    /\ mounted
    /\ toggles < MaxToggles
    /\ toggles' = toggles + 1
    /\ useGraphQL' = ~useGraphQL
    /\ S13Effects(text, ~useGraphQL)
    /\ UNCHANGED <<liveImpl, inputVars, debounced, isEnabled, liveResult, loading, liveError,
                   requestVars, mounted, sentVia, staleClient, lateFire, notSession>>

\* abortControllerRef.current.abort(): the signal went to the GraphQL query only
Aborted ==
    IF Len(sent) > 0 /\ sentVia[Len(sent)] THEN {Len(sent)} ELSE {}

\* debouncedLivePredict hands a request to the client its closure names
S13Issue(d, graphql) ==
    /\ Len(sent) < MaxRequests
    /\ sent' = Append(sent, d)
    /\ sentVia' = Append(sentVia, graphql)
    /\ inflight' = (inflight \ Aborted) \cup {Len(sent) + 1}
    /\ lateIssue' = (lateIssue \/ Len(sent) > Cardinality(inflight))
    /\ staleClient' = (staleClient \/ graphql # useGraphQL)
    /\ UNCHANGED failed

\* the timeout of debouncedCallback runs debouncedLivePredict up to its await;
\* a state update of an unmounted component is dropped
S13TimerFire ==
    /\ liveImpl = "p13"
    /\ \E t \in Due :
          /\ timers' = timers \ {t}
          /\ closureOf' = Closures(timers', {}, FALSE)
          /\ lateFire' = (lateFire \/ ~mounted)
          /\ IF Trim(t.value) = <<>> \/ ~enableLiveTyping
             THEN /\ liveResult' = IF mounted THEN NoResult ELSE liveResult
                  /\ rerender' = IF mounted /\ liveResult # NoResult /\ rerender = "none"
                                 THEN "scheduled" ELSE rerender
                  /\ UNCHANGED <<requestVars, sentVia, staleClient>>
             ELSE /\ S13Issue(t.value, closureOf[t.id])
                  /\ UNCHANGED <<liveResult, rerender>>
    /\ UNCHANGED <<liveImpl, inputVars, debounced, isEnabled, debounceTimer, effectTimer,
                   loading, liveError, debounceGhost, mounted, toggles, useGraphQL, notSession>>

\* the request settles: setLiveResult(result), or the catch that only logs
S13Response ==
    /\ liveImpl = "p13"
    /\ \E seq \in inflight, ok \in BOOLEAN :
          /\ Answered(seq, ok)
          /\ liveResult' = IF ok /\ mounted THEN <<seq>> ELSE liveResult
          /\ rerender' = IF ok /\ mounted /\ liveResult # <<seq>> /\ rerender = "none"
                         THEN "scheduled" ELSE rerender
    /\ UNCHANGED <<liveImpl, inputVars, debounced, isEnabled, timers, debounceTimer, effectTimer,
                   loading, liveError, debounceGhost, sessionVars, useGraphQL, notSession>>

\* the component unmounts: the cleanup of the useDebouncedCallback effect clears
\* the debounceTimer its closure holds, the cleanup of the hook aborts the controller
S13Unmount ==
    /\ liveImpl = "p13"
    /\ mounted
    /\ mounted' = FALSE
    /\ timers' = ClearTimeout(timers, effectTimer)
    /\ closureOf' = Closures(timers', {}, FALSE)
    /\ inflight' = inflight \ Aborted
    /\ rerender' = "none"
    /\ UNCHANGED <<liveImpl, inputVars, debounced, isEnabled, debounceTimer, effectTimer,
                   liveResult, loading, liveError, sent, failed, lateIssue, debounceGhost,
                   sentVia, staleClient, lateFire, toggles, useGraphQL, notSession>>

\* 250 ms pass in a session
S13Tick ==
    /\ liveImpl = "p13"
    /\ Due = {}
    /\ rerender # "late"
    /\ timers # {} \/ rerender = "scheduled"
    /\ timers' = {[t EXCEPT !.left = @ - 1] : t \in timers}
    /\ rerender' = IF rerender = "scheduled" THEN "late" ELSE rerender
    /\ UNCHANGED <<liveImpl, inputVars, debounced, isEnabled, debounceTimer, effectTimer,
                   liveResult, loading, liveError, requestVars, debounceGhost, sessionVars,
                   useGraphQL, notSession>>

(***************************************************************************)
(* The shared store as a whole: src/lib/store.ts (history, stats,          *)
(* toggleGraphQL, toggleLiveTyping) and src/frontend/lib/store.ts, which   *)
(* has no toggles                                                          *)
(***************************************************************************)
\* toggleLiveTyping of src/lib/store.ts
ToggleLiveTyping ==
    /\ histImpl = "lib"
    /\ liveTypingOn' = ~liveTypingOn
    /\ UNCHANGED notSwitch

(***************************************************************************)
(* Specifications: each runs one component and leaves the others as        *)
(* constructed.                                                            *)
(***************************************************************************)
HistIdle ==
    /\ histImpl = "lib"
    /\ now = 0
    /\ history = <<>>
    /\ view = <<>>
    /\ blob = NoItem
    /\ inserted = 0
    /\ lateOps = 0
    /\ removals = FALSE

StatsIdle ==
    /\ stats = InitialStats
    /\ feStats = FeInitialStats
    /\ latLog = <<>>

ApiIdle ==
    /\ apiImpl = "client"
    /\ routeStatus = [r \in Routes |-> 200]
    /\ errorBody = "detail"
    /\ apiPc = "idle"
    /\ apiCalls = <<>>
    /\ apiOutcome = NoOutcome

LiveIdle ==
    LiveInit("comp")

ExIdle(impl) ==
    /\ exImpl = impl
    /\ useGraphQL = FALSE
    /\ exPc = "idle"
    /\ exReq = NoRequest
    /\ submitted = 0
    /\ currentResult = <<>>
    /\ isLoading = FALSE
    /\ exError = <<>>
    /\ exHistory = <<>>
    /\ exStats = InitialStats
    /\ exOutcome = "none"
    /\ exResponse = NoResponse
    /\ exBefore = <<<<>>, InitialStats, <<>>>>
    /\ exHandledAs = "none"
    /\ toggledInFlight = FALSE
    /\ probing = 0
    /\ probes = NoProbes
    /\ probeResult = <<>>

SwitchIdle ==
    liveTypingOn = TRUE

LoadIdle ==
    /\ histPc = "mounted"
    /\ loads = 0
    /\ loadThrew = FALSE
    /\ fallback = <<>>

SessionIdle ==
    /\ mounted = TRUE
    /\ closureOf = NoClosures
    /\ sentVia = <<>>
    /\ staleClient = FALSE
    /\ lateFire = FALSE
    /\ toggles = 0

BatchIdle ==
    /\ batchPc = "idle"
    /\ batchWire = NoRequest
    /\ transportLog = <<>>
    /\ backendLog = <<>>
    /\ batchLoading = FALSE
    /\ batchError = <<>>
    /\ batchResults = <<>>

InitStats ==
    /\ SessionIdle
    /\ SwitchIdle
    /\ LoadIdle
    /\ statsImpl \in {"lib", "fe"}
    /\ StatsIdle
    /\ HistIdle
    /\ ApiIdle
    /\ LiveIdle
    /\ BatchIdle
    /\ ExIdle("hook")

NextStats ==
    \/ UpdateStats
    \/ FeUpdateStats

SpecStats == InitStats /\ [][NextStats]_vars

InitHistory ==
    /\ SessionIdle
    /\ SwitchIdle
    /\ LoadIdle
    /\ histImpl \in {"lib", "fe", "hook", "hook2", "ah"}
    /\ now = 0
    /\ history = <<>>
    /\ view = <<>>
    /\ blob = NoItem
    /\ inserted = 0
    /\ lateOps = 0
    /\ removals = FALSE
    /\ statsImpl = "lib"
    /\ StatsIdle
    /\ ApiIdle
    /\ LiveIdle
    /\ BatchIdle
    /\ ExIdle("hook")

NextHistory ==
    \/ LibAddToHistory
    \/ LibClearHistory
    \/ LibRemoveFromHistory
    \/ FeAddToHistory
    \/ FeClearHistory
    \/ FeRemoveFromHistory
    \/ HookAddToHistory
    \/ HookClearHistory
    \/ HookRemoveFromHistory
    \/ Hook2AddToHistory
    \/ Hook2ClearHistory
    \/ AhSaveToHistory
    \/ AhClearHistory
    \/ AhDeleteItem
    \/ AhRender

SpecHistory == InitHistory /\ [][NextHistory]_vars

InitApi ==
    /\ SessionIdle
    /\ SwitchIdle
    /\ LoadIdle
    /\ apiImpl \in {"client", "rest", "fe"}
    /\ routeStatus \in [Routes -> Statuses]
    /\ errorBody \in ErrorBodies
    /\ apiPc = "idle"
    /\ apiCalls = <<>>
    /\ apiOutcome = NoOutcome
    /\ statsImpl = "lib"
    /\ StatsIdle
    /\ HistIdle
    /\ LiveIdle
    /\ BatchIdle
    /\ ExIdle("hook")

NextApi ==
    \/ ApiPredict
    \/ ApiSettle
    \/ ApiNext

SpecApi == InitApi /\ [][NextApi]_vars

InitLive ==
    /\ SessionIdle
    /\ SwitchIdle
    /\ LoadIdle
    /\ \E impl \in {"comp", "p18", "p13"} : LiveInit(impl)
    /\ statsImpl = "lib"
    /\ StatsIdle
    /\ HistIdle
    /\ ApiIdle
    /\ BatchIdle
    /\ ExIdle("hook")

NextLive ==
    \/ CompTextChange
    \/ CompTimerFire
    \/ CompResponse
    \/ P18TextChange
    \/ P18Toggle
    \/ P18TimerFire
    \/ P18Response
    \/ P13TextChange
    \/ P13Render
    \/ P13TimerFire
    \/ P13Response
    \/ Tick

SpecLive == InitLive /\ [][NextLive]_vars

InitBatch ==
    /\ SessionIdle
    /\ SwitchIdle
    /\ LoadIdle
    /\ BatchIdle
    /\ ExIdle("hook")
    /\ ExIdle("hook")
    /\ statsImpl = "lib"
    /\ StatsIdle
    /\ HistIdle
    /\ ApiIdle
    /\ LiveIdle

NextBatch ==
    \/ HookPredictBatch
    \/ RoutePost
    \/ BackendAnswer
    \/ GraphqlPost

SpecBatch == InitBatch /\ [][NextBatch]_vars

InitPredict ==
    /\ SessionIdle
    /\ SwitchIdle
    /\ LoadIdle
    /\ \E impl \in {"hook", "p13"} : ExIdle(impl)
    /\ statsImpl = "lib"
    /\ StatsIdle
    /\ HistIdle
    /\ ApiIdle
    /\ LiveIdle
    /\ BatchIdle

NextPredict ==
    \/ ExSubmit
    \/ ExSettle
    \/ ToggleGraphQL
    \/ P13ProbeFire
    \/ P13ProbeAnswer
    \/ P17Probe

SpecPredict == InitPredict /\ [][NextPredict]_vars

InitPersist ==
    /\ SessionIdle
    /\ SwitchIdle
    /\ LoadIdle
    /\ histImpl \in {"hook", "ah", "ah2"}
    /\ now = 0
    /\ history = <<>>
    /\ view = <<>>
    /\ blob = NoItem
    /\ inserted = 0
    /\ lateOps = 0
    /\ removals = FALSE
    /\ statsImpl = "lib"
    /\ StatsIdle
    /\ ApiIdle
    /\ LiveIdle
    /\ BatchIdle
    /\ ExIdle("hook")

\* the first AnalysisHistory is explored over the first MaxSmall records of a session,
\* the second one and the hook up to the cap
NextPersist ==
    \/ HookAddToHistory
    \/ HookClearHistory
    \/ HookRemoveFromHistory
    \/ Early /\ AhSaveToHistory
    \/ Early /\ AhClearHistory
    \/ Early /\ AhDeleteItem
    \/ Early /\ AhRender
    \/ Ah2AddToHistory
    \/ Ah2ClearHistory
    \/ Ah2DeleteItem
    \/ Ah2Render

SpecPersist == InitPersist /\ [][NextPersist]_vars

\* a mount over whatever the storage holds
InitLoad ==
    /\ SessionIdle
    /\ SwitchIdle
    /\ histImpl \in {"hook", "ah", "ah2", "util"}
    /\ histPc = IF histImpl \in {"ah", "ah2"} THEN "mounting" ELSE "mounted"
    /\ loads = 0
    /\ loadThrew = FALSE
    /\ fallback \in (IF histImpl = "util" THEN {<<>>, PriorHistory("util")} ELSE {<<>>})
    /\ now = 0
    /\ history = <<>>
    /\ view = <<>>
    /\ blob \in PriorItems(histImpl)
    /\ inserted = 0
    /\ lateOps = 0
    /\ removals = FALSE
    /\ statsImpl = "lib"
    /\ StatsIdle
    /\ ApiIdle
    /\ LiveIdle
    /\ BatchIdle
    /\ ExIdle("hook")

\* the handlers run once the component is mounted; the runs explored are the
\* first MaxSmall records of a session
Interactive ==
    /\ histPc = "mounted"
    /\ Early

NextLoad ==
    \/ AhMount
    \/ HookLoadHistory
    \/ UtilLoad
    \/ UtilSave
    \/ UtilRemove
    \/ Interactive /\ HookAddToHistory
    \/ Interactive /\ HookClearHistory
    \/ Interactive /\ HookRemoveFromHistory
    \/ Interactive /\ AhSaveToHistory
    \/ Interactive /\ AhClearHistory
    \/ Interactive /\ AhDeleteItem
    \/ Interactive /\ AhRender
    \/ Interactive /\ Ah2AddToHistory
    \/ Interactive /\ Ah2ClearHistory
    \/ Interactive /\ Ah2DeleteItem
    \/ Interactive /\ Ah2Render

SpecLoad == InitLoad /\ [][NextLoad]_vars

\* one store: its history, its stats and its switches
InitStore ==
    /\ SessionIdle
    /\ SwitchIdle
    /\ LoadIdle
    /\ histImpl \in {"lib", "fe"}
    /\ statsImpl = histImpl
    /\ now = 0
    /\ history = <<>>
    /\ view = <<>>
    /\ blob = NoItem
    /\ inserted = 0
    /\ lateOps = 0
    /\ removals = FALSE
    /\ StatsIdle
    /\ ApiIdle
    /\ LiveIdle
    /\ BatchIdle
    /\ ExIdle(IF histImpl = "lib" THEN "p13" ELSE "hook")

\* the runs explored: the first MaxSmall records and the first MaxSmall latencies
Brief ==
    /\ Early
    /\ Len(latLog) <= MaxSmall

NextStore ==
    \/ Brief /\ LibAddToHistory
    \/ Brief /\ LibClearHistory
    \/ Brief /\ LibRemoveFromHistory
    \/ Brief /\ FeAddToHistory
    \/ Brief /\ FeClearHistory
    \/ Brief /\ FeRemoveFromHistory
    \/ Brief /\ UpdateStats
    \/ Brief /\ FeUpdateStats
    \/ ToggleGraphQL
    \/ ToggleLiveTyping

SpecStore == InitStore /\ [][NextStore]_vars

\* the frontend component alone, with time passing, scheduled renders run, due timeouts
\* fired and requests answered
InitP13 ==
    /\ SessionIdle
    /\ SwitchIdle
    /\ LoadIdle
    /\ LiveInit("p13")
    /\ statsImpl = "lib"
    /\ StatsIdle
    /\ HistIdle
    /\ ApiIdle
    /\ BatchIdle
    /\ ExIdle("hook")

NextP13 ==
    \/ P13TextChange
    \/ P13Render
    \/ P13TimerFire
    \/ P13Response
    \/ Tick

SpecP13Fair ==
    /\ InitP13
    /\ [][NextP13]_vars
    /\ WF_vars(Tick)
    /\ WF_vars(P13Render)
    /\ WF_vars(P13TimerFire)
    /\ WF_vars(P13Response)

InitSession ==
    /\ SessionIdle
    /\ SwitchIdle
    /\ LoadIdle
    /\ LiveInit("p13")
    /\ statsImpl = "lib"
    /\ StatsIdle
    /\ HistIdle
    /\ ApiIdle
    /\ BatchIdle
    /\ ExIdle("p13")

NextSession ==
    \/ S13TextChange
    \/ S13Render
    \/ S13ToggleGraphQL
    \/ S13TimerFire
    \/ S13Response
    \/ S13Unmount
    \/ S13Tick

SpecSession == InitSession /\ [][NextSession]_vars

(***************************************************************************)
(* Claims about the stats aggregator                                       *)
(***************************************************************************)
StatsCount ==
    IF statsImpl = "lib" THEN stats.totalPredictions ELSE feStats.count

\* the last min(k, 100) recorded latencies, oldest first
LastRecorded ==
    LET k == Len(latLog)
        m == Min(k, STATS_WINDOW)
    IN  [i \in 1..m |-> latLog[k - m + i]]

\* C7: after k calls of updateStats on fresh statistics the prediction count
\* equals k, for every k (also k > 100), and the count never decreases.
C7_TotalEqualsCalls ==
    /\ [](StatsCount = Len(latLog))
    /\ [][StatsCount' >= StatsCount]_vars

C7_Witness ==
    /\ statsImpl = "lib"
    /\ Len(latLog) > STATS_WINDOW
    /\ stats.totalPredictions = Len(latLog)

\* C8: after k calls of updateStats the latency window holds the last
\* min(k, 100) recorded latencies in arrival order and the average is the
\* arithmetic mean of exactly those values.
C8_WindowedMean ==
    Len(latLog) > 0 =>
        LET mean == Rat(SumSeq(LastRecorded), Len(LastRecorded))
        IN  IF statsImpl = "lib"
            THEN /\ stats.responseTimes = LastRecorded
                 /\ stats.averageResponseTime = mean
            ELSE feStats.responseTime = mean

\* the part of C8 that src/lib/store.ts alone is held to
C8_LibWindowedMean ==
    statsImpl = "lib" => C8_WindowedMean

(***************************************************************************)
(* Claims about the history stores                                         *)
(***************************************************************************)
\* the payloads of a history, head first
Payloads(h) ==
    [i \in 1..Len(h) |-> h[i].n]

HasId(h, id) ==
    \E i \in 1..Len(h) : h[i].id = id

HeadInsertStep(stores) ==
    histImpl \in stores /\ inserted' = inserted + 1 =>
        /\ history'[1].n = inserted'
        /\ Payloads(Tail(history')) =
               Payloads(SubSeq(history, 1, Min(Len(history), HISTORY_CAP - 1)))

Capped(stores) ==
    histImpl \in stores => Len(history) <= HISTORY_CAP

\* C5: after any sequence of record, remove and clear operations the history
\* store holds at most 100 entries; a record goes to the head and, once the
\* cap is exceeded, the oldest (tail) entry is evicted.
C5_CapAndHeadInsert ==
    /\ [](Capped({"lib", "fe", "hook"}))
    /\ [][HeadInsertStep({"lib", "fe", "hook"})]_vars

\* the part of C5 that src/lib/store.ts and src/hooks/useSentiment.ts are held to
C5_LibAndHookCap ==
    /\ [](Capped({"lib", "hook", "hook2"}))
    /\ [][HeadInsertStep({"lib", "hook", "hook2"})]_vars

NewestHundred(stores) ==
    histImpl \in stores /\ inserted = 150 /\ ~removals =>
        Payloads(history) = [i \in 1..HISTORY_CAP |-> 151 - i]

\* C6: after 150 records in a row into a fresh store with cap 100 the history
\* holds exactly 100 entries, the 100 most recently recorded, newest first.
C6_NewestHundredOf150 ==
    NewestHundred({"lib", "hook2", "ah"})

\* the part of C6 that the stores without render-time closures are held to
C6_LibAndHookNewestHundred ==
    NewestHundred({"lib", "hook", "hook2"})

NoOpStep(stores) ==
    histImpl \in stores =>
        /\ \A id \in IdInputs(history) \cup IdInputs(view) :
              ~HasId(history, id) /\ (LibRemoveId(id) \/ AhDeleteId(id)) => history' = history
        /\ \A index \in IndexInputs(history) :
              index \notin 0..(Len(history) - 1) /\ HookRemoveIndex(index) => history' = history
        /\ history = <<>> /\ (LibClearHistory \/ HookClearHistory \/ AhClearHistory) =>
              history' = <<>>

\* C9: remove(id) for an id that no history entry has leaves the history
\* (content and order) unchanged, and clear() on an already-empty history
\* leaves it empty.
C9_NoOpRemoveAndClear ==
    [][NoOpStep({"lib", "hook", "ah"})]_vars

\* the part of C9 that the stores without render-time closures are held to
C9_LibAndHookNoOp ==
    [][NoOpStep({"lib", "hook"})]_vars

(***************************************************************************)
(* Claims about the prediction clients                                     *)
(***************************************************************************)
PrimaryRoute == "/api/predict"

FallbackRoute == "/predict"

\* C10: when the primary predict route answers HTTP 404 and the fallback
\* route answers 200 with a valid body, predict retries once against the
\* fallback route and returns the fallback's result without surfacing an
\* error to the caller.
C10_FallbackOn404 ==
    /\ apiPc = "done"
    /\ routeStatus[PrimaryRoute] = 404
    /\ routeStatus[FallbackRoute] = 200
    => /\ apiOutcome = Returned(FallbackRoute)
       /\ apiCalls[Len(apiCalls)] = FallbackRoute

\* what the clients do instead: one request per call, and a non-2xx answer
\* of the route they are bound to is thrown to the caller
C10_OneRequestNoFallback ==
    /\ apiPc = "done"
    /\ ~Ok(routeStatus[PredictRoute(apiImpl)])
    => /\ apiOutcome.kind = "error"
       /\ apiCalls[Len(apiCalls)] = PredictRoute(apiImpl)

(***************************************************************************)
(* Claims about live typing                                                *)
(***************************************************************************)
LastIssued ==
    Len(sent)

OlderResults ==
    {<<k>> : k \in 1..(LastIssued - 1)}

PublishesCurrent ==
    liveResult' # liveResult /\ liveResult' # NoResult => liveResult' = <<LastIssued'>>

\* C1: whatever the interleaving of live-request issues and response
\* arrivals, a result that belongs to a request older than the most recently
\* issued live request is never put on display: each result published is
\* that of the latest request.
C1_NeverPublishesOlder ==
    [][PublishesCurrent]_vars

AllSettle ==
    /\ inflight # {}
    /\ inflight' = {}
    /\ LastIssued' >= 2
    /\ ~lateIssue'

SettledOnLast ==
    IF LastIssued \in failed
    THEN liveResult \notin OlderResults
    ELSE liveResult = <<LastIssued>>

\* C2: when requests s1 < ... < sn were all issued before any response
\* returned, then at the moment the last response has arrived, in whatever
\* order, the live result is the result for sn or, if sn failed, not a
\* result of s1..s(n-1).
C2_LastRequestWins ==
    [][AllSettle => SettledOnLast']_vars

LoveThenProduct ==
    /\ edits = 2
    /\ prevText = Love
    /\ text = LoveProduct
    /\ lastGap < Delay(liveImpl)

\* C4: with live mode enabled, when the text changes to "I love this" and
\* then, within the debounce window, to "I love this product", exactly one
\* live request reaches the transport, for "I love this product", and none
\* for "I love this".
C4_OneRequestForLast ==
    liveImpl = "p13" /\ enableLiveTyping /\ LoveThenProduct =>
        /\ sent \in {<<>>, <<LoveProduct>>}
        /\ sinceEdit > Delay(liveImpl) => sent = <<LoveProduct>>

\* the same scenario in the components built on useDebounce
C4_UseDebounceOneRequest ==
    liveImpl \in {"comp", "p18"} /\ isEnabled /\ LoveThenProduct =>
        /\ sent \in {<<>>, <<LoveProduct>>}
        /\ sinceEdit > Delay(liveImpl) => sent = <<LoveProduct>>

\* what the frontend component does instead: while the text is long enough
\* the debounced call is made again in every render, so no timeout comes due
C4_RenderLoopStarves ==
    liveImpl = "p13" /\ Len(Trim(text)) > LIVE_MIN_TRIMMED => rerender # "none" /\ Due = {}


(***************************************************************************)
(* Claims about batch prediction                                           *)
(***************************************************************************)
\* C11: a batch of 101 texts, with cap 100, is rejected with a validation
\* error before any network call: no request of more than 100 texts reaches
\* the transport or the backend.
C11_OversizeNeverSent ==
    /\ \A i \in DOMAIN transportLog : transportLog[i].size <= ROUTE_BATCH_CAP
    /\ \A i \in DOMAIN backendLog : backendLog[i] <= ROUTE_BATCH_CAP

\* what holds instead on the REST path: the route stops an oversize batch
\* short of the backend
C11_RouteStopsOversize ==
    batchWire.via = "rest" /\ batchPc = "forwarded" => Len(batchWire.texts) <= ROUTE_BATCH_CAP


(***************************************************************************)
(* Claims about explicit prediction                                        *)
(***************************************************************************)
\* the last predict was answered over GraphQL with status 200 and a non-empty
\* errors array
AnsweredWithErrors ==
    /\ exOutcome \in {"success", "failure"}
    /\ exHandledAs = "graphql"
    /\ exResponse.status = 200
    /\ exResponse.errors # <<>>

\* C12: a GraphQL predict response with HTTP status 200 and a populated errors
\* array ends the prediction call in failure, never in success, and the error
\* surfaced is the message of the first entry of the errors array.
C12_ErrorsArrayFails ==
    AnsweredWithErrors =>
        /\ exOutcome = "failure"
        /\ exError = FirstMessage(exResponse.errors)

\* what holds instead for the hook over graphqlApi.predict: the call fails, and
\* the error surfaced is the hook's fixed message
C12_HookFailsWithFixedMessage ==
    AnsweredWithErrors /\ exImpl = "hook" =>
        /\ exOutcome = "failure"
        /\ exError = <<"Failed to analyze sentiment">>

ProbeStep ==
    probing' # probing \/ probes' # probes \/ probeResult' # probeResult

ProbeLeavesStore ==
    ProbeStep => exHistory' = exHistory /\ exStats' = exStats

\* C14: a live probe never adds a history entry and never changes
\* totalPredictions or the latency window.
C14_ProbeLeavesHistoryAndStats ==
    [][ProbeLeavesStore]_vars

\* a live probe was answered with a result while the history and the statistics
\* held an explicit prediction
C14_Witness ==
    /\ probeResult # <<>>
    /\ probes = NoProbes
    /\ Len(exHistory) = 1
    /\ exStats.totalPredictions = 1

\* the answer to an explicit prediction is handled on the branch it was sent
\* on, and a toggle leaves the request in flight as it is
SettlesAsSent ==
    /\ exPc = "sent" /\ exPc' = "idle" => exHandledAs' = exReq.via
    /\ exPc = "sent" /\ useGraphQL' # useGraphQL => exReq' = exReq /\ exPc' = "sent"

\* C15: toggling the transport mode while a request is in flight does not affect
\* that request: it completes with the client it was issued with.
C15_ToggleLeavesRequestInFlight ==
    [][SettlesAsSent]_vars

\* a request sent over REST, the mode toggled to GraphQL while it was in flight,
\* and its answer taken as a REST answer
C15_Witness ==
    /\ toggledInFlight
    /\ useGraphQL
    /\ exPc = "idle"
    /\ exHandledAs = "rest"
    /\ exOutcome = "success"


(***************************************************************************)
(* Claims about the live session                                           *)
(***************************************************************************)
SilentAfterTeardown ==
    ~mounted => liveResult' = liveResult /\ sent' = sent

\* C17: after the component is torn down no pending debounce timer fires its
\* callback, no live request is issued and the response of a request in flight
\* is never published.
C17_TeardownSilences ==
    [](~lateFire) /\ [][SilentAfterTeardown]_vars

\* what holds instead: nothing is published to the live result after the unmount
C17_NoPublishAfterUnmount ==
    [][~mounted => liveResult' = liveResult]_vars

\* C20: after the transport mode is toggled every live request issued afterwards
\* goes to the client of the new mode, also when its debounce timer was started
\* before the toggle.
C20_RequestsUseStoreMode ==
    ~staleClient

\* what holds instead: a request goes to the client that was the store's mode
\* when its timer was armed
C20_RequestsUseArmedMode ==
    [][sent' # sent => \E t \in Due : sentVia'[Len(sentVia')] = closureOf[t.id]]_vars


(***************************************************************************)
(* Claims about live typing with a short text or with live mode off        *)
(***************************************************************************)
\* the text does not qualify for a live request: live mode is off, or the text
\* is shorter than the minimum of the component
Unqualified(t, enabled) ==
    CASE liveImpl = "comp" -> Trim(t) = <<>> \/ Len(t) < COMP_MIN_LENGTH
      [] liveImpl = "p18" -> ~(Trim(t) # <<>> /\ enabled /\ Len(t) > P18_MIN_LENGTH)
      [] OTHER -> ~(enableLiveTyping /\ Len(Trim(t)) > LIVE_MIN_TRIMMED)

ClearsUnqualified ==
    /\ text' # text /\ Unqualified(text', isEnabled') => liveResult' = NoResult
    /\ Unqualified(text, isEnabled) /\ text' = text /\ isEnabled' = isEnabled => sent' = sent

\* C16: when the text changes while live mode is disabled or while the text is
\* shorter than the minimum length, the live result is cleared at once and no
\* live request is issued for as long as the text stays so.
C16_ShortTextClearsAndSchedulesNothing ==
    [][ClearsUnqualified]_vars

\* what holds instead where the text is debounced as a value: no request is
\* issued while the text does not qualify
C16_DebouncedValueIssuesNothing ==
    [][liveImpl # "p13" /\ Unqualified(text, isEnabled) /\ text' = text /\ isEnabled' = isEnabled
          => sent' = sent]_vars

\* what a fresh mount reads back from the stored copy
Reloaded ==
    IF histImpl = "hook" THEN hookLoadHistory(<<>>, blob).history
                         ELSE ahLoadEffect(<<>>, blob).history

LoadsCorrupt ==
    /\ loads' = loads + 1
    /\ blob = Unparsable

FallsBackToEmpty ==
    LoadsCorrupt => /\ ~loadThrew'
                    /\ fallback = <<>> => history' = <<>>

\* C19: a load that finds corrupt (unparsable) persisted history lets no error out to its
\* caller and leaves the history empty (loadFromLocalStorage: when the caller's default is
\* the empty history)
C19_CorruptLoadFallsBackToEmpty ==
    [][FallsBackToEmpty]_vars

\* a load has run over an unparsable text: the history is empty and nothing was thrown
C19_Witness ==
    /\ loads > 0
    /\ blob = Unparsable
    /\ history = <<>>
    /\ fallback = <<>>
    /\ ~loadThrew

(***************************************************************************)
(* Claims about entry ids, removal and lost records                        *)
(***************************************************************************)
DistinctIds(h) ==
    \A i, j \in DOMAIN h : i # j => h[i].id # h[j].id

\* C22: in every reachable state the entries of the history have pairwise distinct ids,
\* also when several entries are recorded within the same clock tick
C22_DistinctIds ==
    histImpl \in {"lib", "ah"} => DistinctIds(history)

\* entries recorded on different clock ticks never share an id
C22_DistinctAcrossTicks ==
    histImpl \in {"lib", "ah"} =>
        \A i, j \in DOMAIN history :
            i # j /\ history[i].id = history[j].id => history[i].id[1] = history[j].id[1]

\* h2 is h without exactly one entry, one whose id is id
MinusOne(h, id, h2) ==
    \E k \in DOMAIN h : h[k].id = id /\ h2 = FilterOutIndex(h, k - 1)

RemovesOne ==
    /\ \A id \in IdInputs(history) :
          HasId(history, id) /\ LibRemoveId(id) => MinusOne(history, id, history')
    /\ \A index \in IndexInputs(history) :
          index \in 0..(Len(history) - 1) /\ FeRemoveIndex(index) =>
              /\ Len(history') = Len(history) - 1
              /\ \A i \in DOMAIN history' :
                    history'[i] = history[IF i <= index THEN i ELSE i + 1]

\* C23: remove(id) for an id present in the history leaves the previous history minus
\* exactly that one entry, every other entry kept and in the same relative order
C23_RemoveTakesOneEntry ==
    [][RemovesOne]_vars

\* the same where the ids of the history are pairwise distinct
C23_RemoveTakesOneOfDistinct ==
    [][DistinctIds(history) => RemovesOne]_vars

\* a record keeps every earlier entry the cap does not evict, in memory and, where the
\* store persists, in the stored copy
KeepsEarlier(stores) ==
    histImpl \in stores /\ inserted' = inserted + 1 =>
        /\ history'[1].n = inserted'
        /\ \A i \in 1..Min(Len(history), HISTORY_CAP - 1) :
              i + 1 \in DOMAIN history' /\ history'[i + 1] = history[i]
        /\ histImpl = "ah" => blob' = Stored(history')

\* C27: every record operation that completes is reflected in the history: of two entries
\* recorded one right after the other, before the component re-renders, both are in the
\* in-memory history and in the stored copy afterwards, unless evicted by the cap
C27_NoRecordLost ==
    [][KeepsEarlier({"lib", "ah"})]_vars

\* the part of C27 that the store of src/lib/store.ts is held to
C27_LibLosesNoRecord ==
    [][KeepsEarlier({"lib"})]_vars

(***************************************************************************)
(* Claims about the frame of the store operations                          *)
(***************************************************************************)
StatsUnchanged ==
    /\ stats' = stats
    /\ feStats' = feStats

SwitchesUnchanged ==
    /\ useGraphQL' = useGraphQL
    /\ liveTypingOn' = liveTypingOn

\* latLog grows exactly when updateStats runs
StoreFrame ==
    /\ latLog' = latLog => StatsUnchanged
    /\ latLog' # latLog => history' = history /\ SwitchesUnchanged
    /\ ~SwitchesUnchanged => history' = history /\ StatsUnchanged

\* C30: in the shared store clearHistory and removeFromHistory leave totalPredictions, the
\* latency window and the average unchanged; updateStats leaves the history unchanged; a
\* toggle of the transport mode or of live typing leaves both unchanged
C30_StoreFrame ==
    [][StoreFrame]_vars

\* the store after records, a removal or clear, both toggles and two latencies: the stats
\* still count the two updateStats calls
C30_Witness ==
    /\ histImpl = "lib"
    /\ removals
    /\ inserted > 0
    /\ useGraphQL
    /\ ~liveTypingOn
    /\ Len(latLog) = 2
    /\ stats.totalPredictions = 2
    /\ Len(stats.responseTimes) = 2

(***************************************************************************)
(* Claims about what a successful explicit prediction records              *)
(***************************************************************************)
\* the mutation of useSentimentPrediction settles with a success
ExplicitSuccess ==
    /\ exImpl = "p13"
    /\ exPc = "sent"
    /\ exPc' = "idle"
    /\ exOutcome' = "success"

RecordsOnce ==
    ExplicitSuccess =>
        /\ Len(exHistory') = Min(Len(exHistory) + 1, HISTORY_CAP)
        /\ exHistory'[1].text = exReq.texts[1]
        /\ exHistory'[1].result = currentResult'
        /\ Tail(exHistory') = SliceFirst(exHistory, HISTORY_KEEP)
        /\ exStats'.totalPredictions = exStats.totalPredictions + 1

\* C24: every explicit (non-live) prediction that succeeds creates exactly one history
\* entry, placed at the head of the history, and increases totalPredictions by exactly one
C24_SuccessRecordsOnce ==
    [][RecordsOnce]_vars

\* two explicit predictions have succeeded: two entries, newest first, and a count of two
C24_Witness ==
    /\ exImpl = "p13"
    /\ exOutcome = "success"
    /\ Len(exHistory) = 2
    /\ exHistory[1].result = <<2>>
    /\ exHistory[2].result = <<1>>
    /\ exStats.totalPredictions = 2

(***************************************************************************)
(* Claims about failures, quiescence and flags of live typing              *)
(***************************************************************************)
\* request seq fails in this step after a later request was issued
SupersededFailure(seq) ==
    /\ seq < LastIssued
    /\ seq \notin failed
    /\ seq \in failed'

DropsSupersededFailure(impls) ==
    liveImpl \in impls =>
        \A seq \in inflight :
            SupersededFailure(seq) =>
                /\ liveResult' = liveResult
                /\ liveError' = liveError
                /\ loading' = loading

\* C21: a failed live probe never throws to its caller and never changes the state of the
\* explicit submission; the failure of a superseded live request changes nothing at all,
\* exactly like a superseded success
C21_SupersededFailureDropped ==
    [][DropsSupersededFailure({"comp", "p13"})]_vars

\* the part of C21 that debouncedLivePredict is held to
C21_P13DropsSupersededFailure ==
    [][DropsSupersededFailure({"p13"})]_vars

\* the debounced text becomes the text of exactly ten characters while live mode is on
QuiescesOnTen ==
    /\ debounced # Ten
    /\ debounced' = Ten
    /\ isEnabled
    /\ Len(sent) < MaxRequests

AnalyzesTen(impls) ==
    liveImpl \in impls /\ QuiescesOnTen => sent' = Append(sent, Ten)

\* C26: the live-typing components that state "minimum 10 characters" analyze a debounced
\* text of exactly 10 characters (and none that is shorter)
C26_TenCharactersAnalyzed ==
    /\ [][AnalyzesTen({"comp", "p18"})]_vars
    /\ [](\A i \in DOMAIN sent : liveImpl \in {"comp", "p18"} => Len(sent[i]) >= 10)

\* the part of C26 that src/components/LiveTypingInference.tsx is held to
C26_CompAnalyzesTen ==
    /\ [][AnalyzesTen({"comp"})]_vars
    /\ [](\A i \in DOMAIN sent : liveImpl \in {"comp", "p18"} => Len(sent[i]) >= 10)

\* the debounced text is blank or too short, the live result is empty, and this step
\* brings no new debounced text
ClearedAndQuiet ==
    /\ liveImpl \in {"comp", "p18"}
    /\ Unqualified(debounced, TRUE)
    /\ liveResult = NoResult
    /\ debounced' = debounced

\* C28: once the debounced text is blank or too short and the live result has been cleared,
\* the live result stays empty until a request for a later qualifying text completes; a late
\* response to a request for the earlier text never repopulates it
C28_ClearedStaysEmpty ==
    [][ClearedAndQuiet => liveResult' = NoResult]_vars

\* what holds instead: the cleared result stays empty while no request is in flight
C28_ClearedStaysEmptyWhenIdle ==
    [][ClearedAndQuiet /\ inflight = {} => liveResult' = NoResult]_vars

\* C29: the loading / analyzing flag is true whenever at least one request is still in
\* flight, also when requests overlap, and false once all requests have settled
C29_LoadingIffInFlight ==
    liveImpl \in {"comp", "p18"} => (loading <=> inflight # {})

\* the half of C29 that holds: the flag is false once every request has settled
C29_SettledMeansNotLoading ==
    liveImpl \in {"comp", "p18"} /\ inflight = {} => ~loading

\* a live request for the text on display has been handed to the transport
IssuedForText ==
    \E i \in DOMAIN sent : sent[i] = text

\* C25: with live mode enabled, once the input quiesces on a text that meets the minimum
\* length, a live request for that text is eventually issued (and, if it succeeds, its
\* result is eventually published as the live result)
C25_QuiescedTextIsAnalyzed ==
    <>[](enableLiveTyping /\ text = Love) => <>IssuedForText

\* what happens instead: while the text is long enough no live request is ever issued
C25_NoRequestWhileQualifying ==
    [][Len(Trim(text)) > LIVE_MIN_TRIMMED /\ text' = text => sent' = sent]_vars

====
